---- MODULE Spec2Model ----
(***************************************************************************)
(* Slot-machine backend: the settlement engine of server.js (users,       *)
(* invoices and spins tables, the REST handlers and the socket handlers)   *)
(* and the callback based variant of the file SOCKET.IO.                   *)
(*                                                                         *)
(* Every handler is an asynchronous task.  One step of a task is: the      *)
(* database statement (or provider call) it is awaiting executes, and the  *)
(* synchronous code that follows runs up to the next await.                *)
(***************************************************************************)
EXTENDS Integers, Sequences, FiniteSets, TLC

VARIABLES users, invoices, spins, sockUser, oracle, tasks, out, nops, ledger, credited,
          sUsers, sDeposits, sSockName, sTasks, sOut,
          draw, spinOut, variant, sSchemaUnique

vars == <<users, invoices, spins, sockUser, oracle, tasks, out, nops, ledger, credited,
          sUsers, sDeposits, sSockName, sTasks, sOut, draw, spinOut, variant,
          sSchemaUnique>>

simpleVars == <<sUsers, sDeposits, sSockName, sTasks, sOut>>
\* the grid under evaluation, the variant of the server that is deployed, and
\* whether the users table of the SOCKET.IO variant (created outside the file)
\* declares username UNIQUE
restVars == <<draw, spinOut, variant, sSchemaUnique>>

(***************************************************************************)
(* Bounds of the model.                                                    *)
(***************************************************************************)
\* handlers in flight at a time
NumTasks == 2
\* requests handled in a run
MaxOps == 3
\* distinct symbols in the grids the payout evaluation is applied to
GridAlphabet == 2

Tasks == 1..NumTasks
Sockets == {1}

(***************************************************************************)
(* Payout table and outcome evaluation (server.js).                        *)
(***************************************************************************)
SYMBOLS == <<"cherry", "lemon", "melon", "bell", "diamond", "seven", "star">>

PAY == ("star,star,star" :> 360) @@ ("seven,seven,seven" :> 156)
       @@ ("diamond,diamond,diamond" :> 84) @@ ("bell,bell,bell" :> 21)
       @@ ("melon,melon,melon" :> 8) @@ ("lemon,lemon,lemon" :> 2)
       @@ ("cherry,cherry,cherry" :> 3)

\* Array.prototype.join(",") of a line of three symbols
join(line) == line[1] \o "," \o line[2] \o "," \o line[3]

\* a reading of the lines in which the diagonal up starts from the middle row
linesOfMiddleStart(cols) ==
  << <<cols[1][2], cols[2][2], cols[3][2]>>,
     <<cols[1][1], cols[2][2], cols[3][3]>>,
     <<cols[1][2], cols[2][2], cols[3][1]>> >>
\* the three lines read from the columns (JavaScript indices are 0-based)
linesOf(cols) ==
  << <<cols[1][2], cols[2][2], cols[3][2]>>,
     <<cols[1][1], cols[2][2], cols[3][3]>>,
     <<cols[1][3], cols[2][2], cols[3][1]>> >>

\* the payout loop over the lines: winners and prizeCredits accumulate
RECURSIVE payLoop(_, _, _, _)
payLoop(lines, i, winners, prizeCredits) ==
  IF i > Len(lines)
  THEN [winners |-> winners, prizeCredits |-> prizeCredits]
  ELSE LET key == join(lines[i])
           p == IF key \in DOMAIN PAY THEN PAY[key] ELSE 0
       IN payLoop(lines, i + 1,
                  IF p > 0
                  THEN Append(winners, [lineIndex |-> i, triple |-> key, prizeCredits |-> p])
                  ELSE winners,
                  prizeCredits + p)

\* randomSpin: d[c][r] is the index Math.floor(Math.random() * SYMBOLS.length)
\* drawn for column c, row r (1-based here)
randomSpin(d) ==
  LET cols == [c \in 1..3 |-> [r \in 1..3 |-> SYMBOLS[d[c][r]]]]
      lines == linesOf(cols)
      paid == payLoop(lines, 1, <<>>, 0)
  IN [columns |-> cols, lines |-> lines,
      winners |-> paid.winners, prizeCredits |-> paid.prizeCredits]

NoSpin == [columns |-> <<>>, lines |-> <<>>, winners |-> <<>>, prizeCredits |-> 0]

(***************************************************************************)
(* Inputs.                                                                 *)
(***************************************************************************)
\* random draws used by the spin handler: no winning line, the middle line
\* of cherries
NoWinDraw == << <<1, 1, 1>>, <<2, 2, 2>>, <<1, 1, 1>> >>
CherryDraw == << <<2, 1, 2>>, <<2, 1, 2>>, <<3, 1, 3>> >>
SpinDraws == {NoWinDraw, CherryDraw}

Bets == {-1, 0, 1}
Prices == {-1, 0, 1}

\* usernames as sequences of characters
Usernames == {<<>>, <<" ">>, <<"a">>, <<"a", " ">>}

Hashes == {"h1", "h2"}
HashInputs == Hashes \cup {""}
UserIdInputs == 0..2
SatsInputs == {-1, 0, 5}
\* the amount of the invoice h1, paid before the server starts
InitPaid == 10
\* amounts the payment provider reports for a paid payment: sats, millisats
\* above the threshold, and the negative amount of an outgoing payment
OracleAmounts == {10, 3000000, -5}

\* String.prototype.trim
RECURSIVE trimStart(_)
trimStart(s) == IF s # <<>> /\ Head(s) = " " THEN trimStart(Tail(s)) ELSE s
RECURSIVE trimEnd(_)
trimEnd(s) == IF s # <<>> /\ s[Len(s)] = " " THEN trimEnd(SubSeq(s, 1, Len(s) - 1)) ELSE s
trim(s) == trimEnd(trimStart(s))

UserIds == 1..Cardinality({trim(n) : n \in Usernames})

(***************************************************************************)
(* Tasks (handlers in flight) of server.js.  out is the message the server *)
(* sent in the step that led to the current state (NoResp when it sent     *)
(* none).  ledger and credited are history variables: the sum of the       *)
(* ledger events completed for a user (credited deposits, prize - cost of  *)
(* settled spins) and the number of credits made for a payment hash.       *)
(***************************************************************************)
NoResp == [kind |-> "", ev |-> "", msg |-> "", balance |-> 0, prize |-> 0,
           winners |-> <<>>, id |-> 0]
Emit(ev, msg) == [NoResp EXCEPT !.ev = ev, !.msg = msg]

\* the answer of the provider that a handler holds between the arrival of the
\* response and the reading of its body
NoAnswer == [status |-> "none", amount |-> 0, hash |-> ""]

IdleTask == [kind |-> "none", pc |-> "idle", sock |-> 0, uid |-> 0, name |-> <<>>,
             bal |-> 0, bet |-> 0, spc |-> 0, spinRes |-> NoSpin,
             hash |-> "", amt |-> 0, invPaid |-> FALSE, resp |-> NoAnswer]

Free(t) == tasks[t].pc = "idle"
InFlight(t) == ~Free(t)

\* the handler of task t ends and sends resp
Reply(t, resp) ==
  /\ out' = [resp EXCEPT !.kind = tasks[t].kind]
  /\ tasks' = [tasks EXCEPT ![t] = IdleTask]

\* the handler of task t goes on to its next await with the record next
Await(t, next) ==
  /\ out' = NoResp
  /\ tasks' = [tasks EXCEPT ![t] = next]

\* a request arrives and its handler starts as task t (the lowest free one)
Begin(t) ==
  /\ Free(t)
  /\ \A o \in Tasks : o < t => InFlight(o)
  /\ nops < MaxOps
  /\ nops' = nops + 1

\* the handler rejects the request before its first await
Reject(t, kind, resp) ==
  /\ out' = [resp EXCEPT !.kind = kind]
  /\ tasks' = tasks

\* SELECT * FROM users WHERE username = ?
UserByName(n) == {i \in 1..Len(users) : users[i].username = n}
\* SELECT * FROM invoices WHERE payment_hash = ?
InvoiceByHash(h) == {i \in 1..Len(invoices) : invoices[i].payment_hash = h}

\* locals of the spin handler
cost(t) == tasks[t].bet * tasks[t].spc
\* a debit of the bet in credits, the price per credit left out
afterBetInCredits(t) == tasks[t].bal - tasks[t].bet
afterBet(t) == tasks[t].bal - cost(t)
prizeSats(t) == tasks[t].spinRes.prizeCredits * tasks[t].spc
finalBalance(t) == afterBet(t) + prizeSats(t)

(***************************************************************************)
(* socket.on("spin") of server.js                                          *)
(***************************************************************************)
SpinStart(t, s, betCredits, satsPerCredit) ==
  /\ Begin(t)
  /\ IF sockUser[s] = 0
     THEN Reject(t, "spin", Emit("error", "No logueado"))
     ELSE Await(t, [IdleTask EXCEPT !.kind = "spin", !.pc = "read", !.sock = s,
                                    !.uid = sockUser[s], !.bet = betCredits,
                                    !.spc = satsPerCredit])
  /\ UNCHANGED <<users, invoices, spins, sockUser, oracle, ledger, credited, simpleVars, restVars>>

\* the SELECT of the user executes; validation and the balance check follow
SpinRead(t) ==
  /\ tasks[t].kind = "spin" /\ tasks[t].pc = "read"
  /\ LET userId == tasks[t].uid IN
     IF userId \notin 1..Len(users)
     THEN Reply(t, Emit("error", "Usuario no encontrado"))
     ELSE IF tasks[t].bet = 0 \/ tasks[t].spc = 0
     THEN Reply(t, Emit("error", "Parametros invalidos"))
     ELSE IF users[userId].balance < tasks[t].bet * tasks[t].spc
     THEN Reply(t, Emit("error", "Saldo insuficiente"))
     ELSE Await(t, [tasks[t] EXCEPT !.bal = users[userId].balance, !.pc = "debit"])
  /\ UNCHANGED <<users, invoices, spins, sockUser, oracle, nops, ledger, credited, simpleVars, restVars>>

\* UPDATE users SET balance = afterBet executes; randomSpin() is called
SpinDebit(t, d) ==
  /\ tasks[t].kind = "spin" /\ tasks[t].pc = "debit"
  /\ users' = [users EXCEPT ![tasks[t].uid].balance = afterBet(t)]
  /\ Await(t, [tasks[t] EXCEPT !.spinRes = randomSpin(d), !.pc = "insert"])
  /\ UNCHANGED <<invoices, spins, sockUser, oracle, nops, ledger, credited, simpleVars, restVars>>

\* INSERT INTO spins executes
SpinInsert(t) ==
  /\ tasks[t].kind = "spin" /\ tasks[t].pc = "insert"
  /\ spins' = Append(spins, [user_id |-> tasks[t].uid,
                             lines |-> tasks[t].spinRes.lines,
                             prize |-> prizeSats(t)])
  /\ Await(t, [tasks[t] EXCEPT !.pc = "final"])
  /\ UNCHANGED <<users, invoices, sockUser, oracle, nops, ledger, credited, simpleVars, restVars>>

\* UPDATE users SET balance = finalBalance executes; spin-result is emitted
SpinFinal(t) ==
  /\ tasks[t].kind = "spin" /\ tasks[t].pc = "final"
  /\ users' = [users EXCEPT ![tasks[t].uid].balance = finalBalance(t)]
  /\ Reply(t, [Emit("spin-result", "") EXCEPT
                 !.winners = tasks[t].spinRes.winners,
                 !.prize = prizeSats(t),
                 !.balance = finalBalance(t),
                 !.id = tasks[t].uid])
  /\ ledger' = [ledger EXCEPT ![tasks[t].uid] = @ + prizeSats(t) - cost(t)]
  /\ UNCHANGED <<invoices, spins, sockUser, oracle, nops, credited, simpleVars, restVars>>

\* a database statement of the spin handler rejects: the catch block runs
SpinDbError(t) ==
  /\ tasks[t].kind = "spin" /\ tasks[t].pc \in {"read", "debit", "insert", "final"}
  /\ Reply(t, Emit("error", "Error al girar"))
  /\ UNCHANGED <<users, invoices, spins, sockUser, oracle, nops, ledger, credited, simpleVars, restVars>>

(***************************************************************************)
(* app.post("/api/login") of server.js                                     *)
(***************************************************************************)
LoginStart(t, username) ==
  /\ Begin(t)
  /\ IF username = <<>> \/ Len(trim(username)) = 0
     THEN Reject(t, "login", Emit("400", "username invalido"))
     ELSE Await(t, [IdleTask EXCEPT !.kind = "login", !.pc = "select", !.name = trim(username)])
  /\ UNCHANGED <<users, invoices, spins, sockUser, oracle, ledger, credited, simpleVars, restVars>>

\* SELECT * FROM users WHERE username = ? executes
LoginSelect(t) ==
  /\ tasks[t].kind = "login" /\ tasks[t].pc = "select"
  /\ IF UserByName(tasks[t].name) # {}
     THEN LET id == CHOOSE i \in UserByName(tasks[t].name) : TRUE
          IN Reply(t, [Emit("200", "") EXCEPT !.id = id, !.balance = users[id].balance])
     ELSE Await(t, [tasks[t] EXCEPT !.pc = "insert"])
  /\ UNCHANGED <<users, invoices, spins, sockUser, oracle, nops, ledger, credited, simpleVars, restVars>>

\* INSERT INTO users (username, balance) VALUES (?, 0) executes; username is UNIQUE
LoginInsert(t) ==
  /\ tasks[t].kind = "login" /\ tasks[t].pc = "insert"
  /\ IF UserByName(tasks[t].name) # {}
     THEN /\ Reply(t, Emit("500", "error interno"))
          /\ users' = users
     ELSE /\ users' = Append(users, [username |-> tasks[t].name, balance |-> 0])
          /\ Await(t, [tasks[t] EXCEPT !.uid = Len(users) + 1, !.pc = "get"])
  /\ UNCHANGED <<invoices, spins, sockUser, oracle, nops, ledger, credited, simpleVars, restVars>>

\* SELECT * FROM users WHERE id = lastID executes; the response is sent
LoginGet(t) ==
  /\ tasks[t].kind = "login" /\ tasks[t].pc = "get"
  /\ Reply(t, [Emit("200", "") EXCEPT !.id = tasks[t].uid,
                                      !.balance = users[tasks[t].uid].balance])
  /\ UNCHANGED <<users, invoices, spins, sockUser, oracle, nops, ledger, credited, simpleVars, restVars>>

(***************************************************************************)
(* socket.on("login") of server.js                                         *)
(***************************************************************************)
SockLoginStart(t, s, username) ==
  /\ Begin(t)
  /\ IF username = <<>>
     THEN Reject(t, "sockLogin", Emit("login-error", "username invalido"))
     ELSE Await(t, [IdleTask EXCEPT !.kind = "sockLogin", !.pc = "select", !.sock = s,
                                    !.name = trim(username)])
  /\ UNCHANGED <<users, invoices, spins, sockUser, oracle, ledger, credited, simpleVars, restVars>>

SockLoginSelect(t) ==
  /\ tasks[t].kind = "sockLogin" /\ tasks[t].pc = "select"
  /\ IF UserByName(tasks[t].name) # {}
     THEN LET id == CHOOSE i \in UserByName(tasks[t].name) : TRUE IN
          /\ sockUser' = [sockUser EXCEPT ![tasks[t].sock] = id]
          /\ Reply(t, [Emit("login-success", "") EXCEPT
                         !.id = id, !.balance = users[id].balance])
     ELSE /\ Await(t, [tasks[t] EXCEPT !.pc = "insert"])
          /\ sockUser' = sockUser
  /\ UNCHANGED <<users, invoices, spins, oracle, nops, ledger, credited, simpleVars, restVars>>

\* INSERT INTO users(username) VALUES (?) executes; balance defaults to 0
SockLoginInsert(t) ==
  /\ tasks[t].kind = "sockLogin" /\ tasks[t].pc = "insert"
  /\ IF UserByName(tasks[t].name) # {}
     THEN /\ Reply(t, Emit("login-error", "error interno"))
          /\ users' = users
     ELSE /\ users' = Append(users, [username |-> tasks[t].name, balance |-> 0])
          /\ Await(t, [tasks[t] EXCEPT !.uid = Len(users) + 1, !.pc = "get"])
  /\ UNCHANGED <<invoices, spins, sockUser, oracle, nops, ledger, credited, simpleVars, restVars>>

SockLoginGet(t) ==
  /\ tasks[t].kind = "sockLogin" /\ tasks[t].pc = "get"
  /\ sockUser' = [sockUser EXCEPT ![tasks[t].sock] = tasks[t].uid]
  /\ Reply(t, [Emit("login-success", "") EXCEPT
                 !.id = tasks[t].uid,
                 !.balance = users[tasks[t].uid].balance])
  /\ UNCHANGED <<users, invoices, spins, oracle, nops, ledger, credited, simpleVars, restVars>>

(***************************************************************************)
(* The payment provider (LNbits), an external party.                       *)
(***************************************************************************)
NoPayment == [status |-> "none", amount |-> 0]

\* somebody pays an invoice; the provider will report the amount a
OraclePay(h, a) ==
  /\ oracle[h].status = "unpaid"
  /\ oracle' = [oracle EXCEPT ![h] = [status |-> "paid", amount |-> a]]
  /\ out' = NoResp
  /\ UNCHANGED <<users, invoices, spins, sockUser, tasks, nops, ledger, credited, simpleVars, restVars>>

(***************************************************************************)
(* app.post("/api/create_invoice") of server.js                            *)
(***************************************************************************)
\* a validation that checks the user id only
CreateStartAnyAmount(t, userId, sats) ==
  /\ Begin(t)
  /\ IF userId = 0
     THEN Reject(t, "create", Emit("400", "userId o sats invalidos (sats>0)"))
     ELSE Await(t, [IdleTask EXCEPT !.kind = "create", !.pc = "fetch", !.uid = userId, !.amt = sats])
  /\ UNCHANGED <<users, invoices, spins, sockUser, oracle, ledger, credited, simpleVars, restVars>>
CreateStart(t, userId, sats) ==
  /\ Begin(t)
  /\ IF userId = 0 \/ sats <= 0
     THEN Reject(t, "create", Emit("400", "userId o sats invalidos (sats>0)"))
     ELSE Await(t, [IdleTask EXCEPT !.kind = "create", !.pc = "fetch", !.uid = userId, !.amt = sats])
  /\ UNCHANGED <<users, invoices, spins, sockUser, oracle, ledger, credited, simpleVars, restVars>>

\* await fetchLib(...) resolves: the provider has issued the invoice h and its
\* response has arrived; the body has not been read yet
CreateResponse(t, h) ==
  /\ tasks[t].kind = "create" /\ tasks[t].pc = "fetch"
  /\ oracle[h].status \in {"none", "unpaid"}
  /\ oracle' = [oracle EXCEPT ![h] = [status |-> "unpaid", amount |-> 0]]
  /\ Await(t, [tasks[t] EXCEPT !.resp = [status |-> "unpaid", amount |-> 0, hash |-> h],
                               !.pc = "body"])
  /\ UNCHANGED <<users, invoices, spins, sockUser, nops, ledger, credited, simpleVars, restVars>>

\* await fetchLib(...) resolves with the response of a provider that answers
\* with an error or without a payment request
CreateResponseFail(t) ==
  /\ tasks[t].kind = "create" /\ tasks[t].pc = "fetch"
  /\ Await(t, [tasks[t] EXCEPT !.resp = [NoAnswer EXCEPT !.status = "error"], !.pc = "body"])
  /\ UNCHANGED <<users, invoices, spins, sockUser, oracle, nops, ledger, credited, simpleVars, restVars>>

\* await resp.json() resolves: the body carries a payment hash
CreateFetch(t) ==
  /\ tasks[t].kind = "create" /\ tasks[t].pc = "body"
  /\ tasks[t].resp.status = "unpaid"
  /\ Await(t, [tasks[t] EXCEPT !.hash = tasks[t].resp.hash, !.pc = "insert"])
  /\ UNCHANGED <<users, invoices, spins, sockUser, oracle, nops, ledger, credited, simpleVars, restVars>>

\* await resp.json() resolves: the response was an error or has no payment
\* request
CreateFetchFail(t) ==
  /\ tasks[t].kind = "create" /\ tasks[t].pc = "body"
  /\ tasks[t].resp.status = "error"
  /\ Reply(t, Emit("500", "Error creando invoice LNbits"))
  /\ UNCHANGED <<users, invoices, spins, sockUser, oracle, nops, ledger, credited, simpleVars, restVars>>

\* the call of the provider rejects (network error), or the reading of the
\* body does: the catch block answers
CreateFetchReject(t) ==
  /\ tasks[t].kind = "create" /\ tasks[t].pc \in {"fetch", "body"}
  /\ Reply(t, Emit("500", "error interno"))
  /\ UNCHANGED <<users, invoices, spins, sockUser, oracle, nops, ledger, credited, simpleVars, restVars>>

\* INSERT OR IGNORE INTO invoices executes; payment_hash is UNIQUE
CreateInsert(t) ==
  /\ tasks[t].kind = "create" /\ tasks[t].pc = "insert"
  /\ invoices' = IF InvoiceByHash(tasks[t].hash) # {}
                 THEN invoices
                 ELSE Append(invoices, [user_id |-> tasks[t].uid, amount |-> tasks[t].amt,
                                        payment_hash |-> tasks[t].hash, paid |-> 0])
  /\ Reply(t, [Emit("200", tasks[t].hash) EXCEPT !.id = tasks[t].uid])
  /\ UNCHANGED <<users, spins, sockUser, oracle, nops, ledger, credited, simpleVars, restVars>>

(***************************************************************************)
(* app.post("/api/check_payment") of server.js                             *)
(***************************************************************************)
\* paidAmount > 1000000 ? Math.floor(paidAmount / 1000) : paidAmount
paidSatsOf(paidAmount) == IF paidAmount > 1000000 THEN paidAmount \div 1000 ELSE paidAmount

CheckStart(t, userId, h) ==
  /\ Begin(t)
  /\ IF userId = 0 \/ h = ""
     THEN Reject(t, "check", Emit("400", "userId o payment_hash invalidos"))
     ELSE Await(t, [IdleTask EXCEPT !.kind = "check", !.pc = "fetch", !.uid = userId, !.hash = h])
  /\ UNCHANGED <<users, invoices, spins, sockUser, oracle, ledger, credited, simpleVars, restVars>>

\* await fetchLib(...) resolves: the provider has answered with what it knows
\* of the hash now, and its response has arrived; the body has not been read yet
CheckResponse(t) ==
  /\ tasks[t].kind = "check" /\ tasks[t].pc = "fetch"
  /\ Await(t, [tasks[t] EXCEPT !.resp = [status |-> oracle[tasks[t].hash].status,
                                         amount |-> oracle[tasks[t].hash].amount,
                                         hash |-> tasks[t].hash],
                               !.pc = "body"])
  /\ UNCHANGED <<users, invoices, spins, sockUser, oracle, nops, ledger, credited, simpleVars, restVars>>

\* the call of the provider rejects (network error), or the reading of the
\* body does: the catch block answers
CheckFetchReject(t) ==
  /\ tasks[t].kind = "check" /\ tasks[t].pc \in {"fetch", "body"}
  /\ Reply(t, Emit("500", "error interno"))
  /\ UNCHANGED <<users, invoices, spins, sockUser, oracle, nops, ledger, credited, simpleVars, restVars>>

\* a poll that settles whatever payment the provider knows
CheckFetchAnyKnown(t) ==
  /\ tasks[t].kind = "check" /\ tasks[t].pc = "body"
  /\ LET data == tasks[t].resp IN
     IF data.status = "none"
     THEN Reply(t, Emit("500", "Error consultando LNbits"))
     ELSE Await(t, [tasks[t] EXCEPT !.amt = paidSatsOf(data.amount), !.pc = "inv"])
  /\ UNCHANGED <<users, invoices, spins, sockUser, oracle, nops, ledger, credited, simpleVars, restVars>>
\* await resp.json() resolves: the answer to GET /api/v1/payments/<hash> that
\* arrived with the response is read
CheckFetch(t) ==
  /\ tasks[t].kind = "check" /\ tasks[t].pc = "body"
  /\ LET data == tasks[t].resp IN
     IF data.status = "none"
     THEN Reply(t, Emit("500", "Error consultando LNbits"))
     ELSE IF data.status = "unpaid"
     THEN Reply(t, Emit("200", "success: false"))
     ELSE Await(t, [tasks[t] EXCEPT !.amt = paidSatsOf(data.amount), !.pc = "inv"])
  /\ UNCHANGED <<users, invoices, spins, sockUser, oracle, nops, ledger, credited, simpleVars, restVars>>

\* SELECT * FROM invoices WHERE payment_hash = ? executes
CheckInv(t) ==
  /\ tasks[t].kind = "check" /\ tasks[t].pc = "inv"
  /\ LET inv == InvoiceByHash(tasks[t].hash) IN
     IF inv = {}
     THEN Await(t, [tasks[t] EXCEPT !.pc = "insertInv"])
     ELSE IF \A i \in inv : invoices[i].paid = 0
     THEN Await(t, [tasks[t] EXCEPT !.pc = "markPaid"])
     ELSE Await(t, [tasks[t] EXCEPT !.invPaid = TRUE, !.pc = "user"])
  /\ UNCHANGED <<users, invoices, spins, sockUser, oracle, nops, ledger, credited, simpleVars, restVars>>

\* an INSERT into a table without the UNIQUE constraint
CheckInsertNoUnique(t) ==
  /\ tasks[t].kind = "check" /\ tasks[t].pc = "insertInv"
  /\ invoices' = Append(invoices, [user_id |-> tasks[t].uid, amount |-> tasks[t].amt,
                                   payment_hash |-> tasks[t].hash, paid |-> 1])
  /\ Await(t, [tasks[t] EXCEPT !.pc = "user"])
  /\ UNCHANGED <<users, spins, sockUser, oracle, nops, ledger, credited, simpleVars, restVars>>
\* INSERT INTO invoices (..., paid) VALUES (..., 1) executes; payment_hash is UNIQUE
CheckInsert(t) ==
  /\ tasks[t].kind = "check" /\ tasks[t].pc = "insertInv"
  /\ IF InvoiceByHash(tasks[t].hash) # {}
     THEN /\ Reply(t, [Emit("500", "error interno") EXCEPT !.id = tasks[t].uid])
          /\ invoices' = invoices
     ELSE /\ invoices' = Append(invoices, [user_id |-> tasks[t].uid, amount |-> tasks[t].amt,
                                           payment_hash |-> tasks[t].hash, paid |-> 1])
          /\ Await(t, [tasks[t] EXCEPT !.pc = "user"])
  /\ UNCHANGED <<users, spins, sockUser, oracle, nops, ledger, credited, simpleVars, restVars>>

\* an UPDATE that flips the flag: SET paid = 1 - paid
CheckMarkFlip(t) ==
  /\ tasks[t].kind = "check" /\ tasks[t].pc = "markPaid"
  /\ invoices' = [i \in 1..Len(invoices) |->
                    IF invoices[i].payment_hash = tasks[t].hash
                    THEN [invoices[i] EXCEPT !.paid = 1 - @]
                    ELSE invoices[i]]
  /\ Await(t, [tasks[t] EXCEPT !.pc = "user"])
  /\ UNCHANGED <<users, spins, sockUser, oracle, nops, ledger, credited, simpleVars, restVars>>
\* UPDATE invoices SET paid = 1 WHERE payment_hash = ? executes
CheckMark(t) ==
  /\ tasks[t].kind = "check" /\ tasks[t].pc = "markPaid"
  /\ invoices' = [i \in 1..Len(invoices) |->
                    IF invoices[i].payment_hash = tasks[t].hash
                    THEN [invoices[i] EXCEPT !.paid = 1]
                    ELSE invoices[i]]
  /\ Await(t, [tasks[t] EXCEPT !.pc = "user"])
  /\ UNCHANGED <<users, spins, sockUser, oracle, nops, ledger, credited, simpleVars, restVars>>

\* SELECT * FROM users WHERE id = ? executes; user.balance throws without a row
CheckUser(t) ==
  /\ tasks[t].kind = "check" /\ tasks[t].pc = "user"
  /\ IF tasks[t].uid \notin 1..Len(users)
     THEN Reply(t, Emit("500", "error interno"))
     ELSE Await(t, [tasks[t] EXCEPT !.bal = users[tasks[t].uid].balance, !.pc = "credit"])
  /\ UNCHANGED <<users, invoices, spins, sockUser, oracle, nops, ledger, credited, simpleVars, restVars>>

\* an UPDATE of the balance without its WHERE id = ?
CheckCreditAllRows(t) ==
  /\ tasks[t].kind = "check" /\ tasks[t].pc = "credit"
  /\ LET newBalance == tasks[t].bal + tasks[t].amt IN
     /\ users' = [i \in 1..Len(users) |-> [users[i] EXCEPT !.balance = newBalance]]
     /\ Reply(t, [Emit("200", "success: true") EXCEPT
                    !.balance = newBalance, !.prize = tasks[t].amt,
                    !.id = tasks[t].uid])
  /\ ledger' = [ledger EXCEPT ![tasks[t].uid] = @ + tasks[t].amt]
  /\ credited' = [credited EXCEPT ![tasks[t].hash] = @ + 1]
  /\ UNCHANGED <<invoices, spins, sockUser, oracle, nops, simpleVars, restVars>>
\* UPDATE users SET balance = newBalance executes; the response is sent
CheckCredit(t) ==
  /\ tasks[t].kind = "check" /\ tasks[t].pc = "credit"
  /\ LET newBalance == tasks[t].bal + tasks[t].amt IN
     /\ users' = [users EXCEPT ![tasks[t].uid].balance = newBalance]
     /\ Reply(t, [Emit("200", "success: true") EXCEPT
                    !.balance = newBalance, !.prize = tasks[t].amt,
                    !.id = tasks[t].uid])
  /\ ledger' = [ledger EXCEPT ![tasks[t].uid] = @ + tasks[t].amt]
  /\ credited' = [credited EXCEPT ![tasks[t].hash] = @ + 1]
  /\ UNCHANGED <<invoices, spins, sockUser, oracle, nops, simpleVars, restVars>>

(***************************************************************************)
(* The variant of the file SOCKET.IO: users are keyed by username, the     *)
(* database calls take callbacks and writes are issued without waiting.    *)
(***************************************************************************)
SNoResp == [kind |-> "", ev |-> "", msg |-> "", balance |-> 0, win |-> 0, result |-> <<>>]
SEmit(ev, msg) == [SNoResp EXCEPT !.ev = ev, !.msg = msg]

SimpleIdle == [kind |-> "none", pc |-> "idle", sock |-> 0, name |-> <<>>, amount |-> 0,
               newBalance |-> 0]

SFree(t) == sTasks[t].pc = "idle"

SBegin(t) ==
  /\ SFree(t)
  /\ \A o \in Tasks : o < t => ~SFree(o)
  /\ nops < MaxOps
  /\ nops' = nops + 1

SReject(t, kind, resp) ==
  /\ sOut' = [resp EXCEPT !.kind = kind]
  /\ sTasks' = sTasks

SReply(t, resp) ==
  /\ sOut' = [resp EXCEPT !.kind = sTasks[t].kind]
  /\ sTasks' = [sTasks EXCEPT ![t] = SimpleIdle]

\* the handler sends resp and leaves the statement of record next pending
SAwait(t, next, resp) ==
  /\ sOut' = IF resp = SNoResp THEN SNoResp ELSE [resp EXCEPT !.kind = sTasks[t].kind]
  /\ sTasks' = [sTasks EXCEPT ![t] = next]

\* SELECT ... FROM users WHERE username = ?
SUserByName(n) == {i \in 1..Len(sUsers) : sUsers[i].username = n}
\* the first row db.get returns
SRow(n) == sUsers[CHOOSE i \in SUserByName(n) : \A k \in SUserByName(n) : i <= k]

\* --- login ---
SLoginStart(t, s, username) ==
  /\ SBegin(t)
  /\ IF username = <<>>
     THEN SReject(t, "login", SEmit("loginError", "Nombre invalido"))
     ELSE SAwait(t, [SimpleIdle EXCEPT !.kind = "login", !.pc = "select", !.sock = s,
                                      !.name = username], SNoResp)
  /\ UNCHANGED <<sUsers, sDeposits, sSockName, users, invoices, spins, sockUser, oracle,
                 tasks, out, ledger, credited, restVars>>

\* the SELECT executes and its callback runs
SLoginSelect(t) ==
  /\ sTasks[t].kind = "login" /\ sTasks[t].pc = "select"
  /\ sSockName' = [sSockName EXCEPT ![sTasks[t].sock] = sTasks[t].name]
  /\ IF SUserByName(sTasks[t].name) = {}
     THEN SAwait(t, [sTasks[t] EXCEPT !.pc = "insert"], SEmit("loginSuccess", ""))
     ELSE SReply(t, [SEmit("loginSuccess", "") EXCEPT !.balance = SRow(sTasks[t].name).balance])
  /\ UNCHANGED <<sUsers, sDeposits, nops, users, invoices, spins, sockUser, oracle,
                 tasks, out, ledger, credited, restVars>>

\* the store accepts a row for username n: always without the UNIQUE
\* constraint, and with it only when no row has that username
SUniqueUsername(n) == sSchemaUnique => SUserByName(n) = {}

\* INSERT INTO users (username, balance) VALUES (?, 0) executes
SLoginInsert(t) ==
  /\ sTasks[t].kind = "login" /\ sTasks[t].pc = "insert"
  /\ sUsers' = IF SUniqueUsername(sTasks[t].name)
               THEN Append(sUsers, [username |-> sTasks[t].name, balance |-> 0])
               ELSE sUsers
  /\ SReply(t, SNoResp)
  /\ UNCHANGED <<sDeposits, sSockName, nops, users, invoices, spins, sockUser, oracle,
                 tasks, out, ledger, credited, restVars>>

\* --- requestDeposit ---
SDepositStart(t, s, amount) ==
  /\ SBegin(t)
  /\ IF sSockName[s] = <<>>
     THEN SReject(t, "requestDeposit", SEmit("depositError", "No logueado"))
     ELSE IF amount = 0 \/ amount <= 0
     THEN SReject(t, "requestDeposit", SEmit("depositError", "Cantidad invalida"))
     ELSE SAwait(t, [SimpleIdle EXCEPT !.kind = "requestDeposit", !.pc = "fetch", !.sock = s,
                                      !.name = sSockName[s], !.amount = amount], SNoResp)
  /\ UNCHANGED <<sUsers, sDeposits, sSockName, users, invoices, spins, sockUser, oracle,
                 tasks, out, ledger, credited, restVars>>

\* await fetch(...) resolves: the response of LND has arrived, its body has not
\* been read yet
SDepositResponse(t) ==
  /\ sTasks[t].kind = "requestDeposit" /\ sTasks[t].pc = "fetch"
  /\ SAwait(t, [sTasks[t] EXCEPT !.pc = "body"], SNoResp)
  /\ UNCHANGED <<sUsers, sDeposits, sSockName, nops, users, invoices, spins, sockUser, oracle,
                 tasks, out, ledger, credited, restVars>>

\* await response.json() resolves with a payment request: the INSERT of the
\* deposit row is issued for socket.username as it is now, the invoice sent
SDepositFetch(t) ==
  /\ sTasks[t].kind = "requestDeposit" /\ sTasks[t].pc = "body"
  /\ SAwait(t, [sTasks[t] EXCEPT !.name = sSockName[sTasks[t].sock], !.pc = "insert"],
            SEmit("depositInvoice", "payment_request"))
  /\ UNCHANGED <<sUsers, sDeposits, sSockName, nops, users, invoices, spins, sockUser, oracle,
                 tasks, out, ledger, credited, restVars>>

\* LND answers without a payment request, or the call or the reading of the
\* body fails
SDepositFetchFail(t) ==
  /\ sTasks[t].kind = "requestDeposit" /\ sTasks[t].pc \in {"fetch", "body"}
  /\ SReply(t, SEmit("depositError", "Error creando factura"))
  /\ UNCHANGED <<sUsers, sDeposits, sSockName, nops, users, invoices, spins, sockUser, oracle,
                 tasks, out, ledger, credited, restVars>>

\* INSERT INTO deposits (username, invoice, amount, paid) VALUES (?, ?, ?, 0) executes
SDepositInsert(t) ==
  /\ sTasks[t].kind = "requestDeposit" /\ sTasks[t].pc = "insert"
  /\ sDeposits' = Append(sDeposits, [username |-> sTasks[t].name, amount |-> sTasks[t].amount,
                                     paid |-> 0])
  /\ SReply(t, SNoResp)
  /\ UNCHANGED <<sUsers, sSockName, nops, users, invoices, spins, sockUser, oracle,
                 tasks, out, ledger, credited, restVars>>

\* --- simulatePayment ---
SSimulateStart(t, s, amount) ==
  /\ SBegin(t)
  /\ IF sSockName[s] = <<>>
     THEN SReject(t, "simulatePayment", SNoResp)
     ELSE SAwait(t, [SimpleIdle EXCEPT !.kind = "simulatePayment", !.pc = "both", !.sock = s,
                                      !.name = sSockName[s], !.amount = amount], SNoResp)
  /\ UNCHANGED <<sUsers, sDeposits, sSockName, users, invoices, spins, sockUser, oracle,
                 tasks, out, ledger, credited, restVars>>

\* the UPDATE and the SELECT are issued together and neither waits for the
\* other: pc is "both" while both are pending, "update" or "get" when only
\* that one is

\* UPDATE users SET balance = balance + ? WHERE username = ? executes
SSimulateUpdate(t) ==
  /\ sTasks[t].kind = "simulatePayment" /\ sTasks[t].pc \in {"both", "update"}
  /\ sUsers' = [i \in 1..Len(sUsers) |->
                  IF sUsers[i].username = sTasks[t].name
                  THEN [sUsers[i] EXCEPT !.balance = @ + sTasks[t].amount]
                  ELSE sUsers[i]]
  /\ IF sTasks[t].pc = "both"
     THEN SAwait(t, [sTasks[t] EXCEPT !.pc = "get"], SNoResp)
     ELSE SReply(t, SNoResp)
  /\ UNCHANGED <<sDeposits, sSockName, nops, users, invoices, spins, sockUser, oracle,
                 tasks, out, ledger, credited, restVars>>

\* SELECT balance executes and the callback emits it (row.balance throws without a row)
SSimulateGet(t) ==
  /\ sTasks[t].kind = "simulatePayment" /\ sTasks[t].pc \in {"both", "get"}
  /\ LET resp == IF SUserByName(sTasks[t].name) = {}
                 THEN SEmit("uncaught", "TypeError")
                 ELSE [SEmit("balanceUpdate", "") EXCEPT
                         !.balance = SRow(sTasks[t].name).balance]
     IN IF sTasks[t].pc = "both"
        THEN SAwait(t, [sTasks[t] EXCEPT !.pc = "update"], resp)
        ELSE SReply(t, resp)
  /\ UNCHANGED <<sUsers, sDeposits, sSockName, nops, users, invoices, spins, sockUser, oracle,
                 tasks, out, ledger, credited, restVars>>

\* --- spin ---
bet == 10
reels == [r \in 1..3 |-> <<"cherry", "lemon", "orange", "melon", "star", "diamond">>]
\* win of a result: bet * 10 when the three reels show the same symbol
winOf(result) == IF result[1] = result[2] /\ result[2] = result[3] THEN bet * 10 ELSE 0

SSpinStart(t, s) ==
  /\ SBegin(t)
  /\ IF sSockName[s] = <<>>
     THEN SReject(t, "spin", SEmit("spinError", "No logueado"))
     ELSE SAwait(t, [SimpleIdle EXCEPT !.kind = "spin", !.pc = "read", !.sock = s,
                                      !.name = sSockName[s]], SNoResp)
  /\ UNCHANGED <<sUsers, sDeposits, sSockName, users, invoices, spins, sockUser, oracle,
                 tasks, out, ledger, credited, restVars>>

\* the SELECT executes and its callback runs; k[r] is the index drawn for reel
\* r.  The UPDATE is issued for socket.username as it is now.
SSpinRead(t, k) ==
  /\ sTasks[t].kind = "spin" /\ sTasks[t].pc = "read"
  /\ IF SUserByName(sTasks[t].name) = {}
     THEN SReply(t, SEmit("spinError", "Usuario no encontrado"))
     ELSE IF SRow(sTasks[t].name).balance < bet
     THEN SReply(t, SEmit("spinError", "Saldo insuficiente"))
     ELSE LET result == [r \in 1..3 |-> reels[r][k[r]]]
              win == winOf(result)
              newBalance == SRow(sTasks[t].name).balance - bet + win
          IN SAwait(t, [sTasks[t] EXCEPT !.newBalance = newBalance, !.pc = "write",
                                         !.name = sSockName[sTasks[t].sock]],
                    [SEmit("spinResult", "") EXCEPT !.result = result, !.win = win,
                                                    !.balance = newBalance])
  /\ UNCHANGED <<sUsers, sDeposits, sSockName, nops, users, invoices, spins, sockUser, oracle,
                 tasks, out, ledger, credited, restVars>>

\* UPDATE users SET balance = ? WHERE username = ? executes
SSpinWrite(t) ==
  /\ sTasks[t].kind = "spin" /\ sTasks[t].pc = "write"
  /\ sUsers' = [i \in 1..Len(sUsers) |->
                  IF sUsers[i].username = sTasks[t].name
                  THEN [sUsers[i] EXCEPT !.balance = sTasks[t].newBalance]
                  ELSE sUsers[i]]
  /\ SReply(t, SNoResp)
  /\ UNCHANGED <<sDeposits, sSockName, nops, users, invoices, spins, sockUser, oracle,
                 tasks, out, ledger, credited, restVars>>

(***************************************************************************)
(* Initial states.                                                         *)
(***************************************************************************)
SFreshDb == sUsers = <<>>
SEarlierDb == sUsers = <<[username |-> <<"a">>, balance |-> InitPaid]>>

InitSimple ==
  /\ SFreshDb \/ SEarlierDb
  /\ sSchemaUnique \in BOOLEAN
  /\ sDeposits = <<>>
  /\ sSockName = [s \in Sockets |-> <<>>]
  /\ sTasks = [t \in Tasks |-> SimpleIdle]
  /\ sOut = SNoResp

IdleSimple ==
  /\ SFreshDb
  /\ sSchemaUnique = TRUE
  /\ sDeposits = <<>>
  /\ sSockName = [s \in Sockets |-> <<>>]
  /\ sTasks = [t \in Tasks |-> SimpleIdle]
  /\ sOut = SNoResp

InitGrid == draw = NoWinDraw /\ spinOut = NoSpin

\* slot.db persists across restarts (CREATE TABLE IF NOT EXISTS): the server
\* starts on a fresh database, or on the one an earlier run left, in which
\* user "a" was credited the paid invoice h1
FreshDb ==
  /\ users = <<>> /\ invoices = <<>>
  /\ ledger = [u \in UserIds |-> 0]
  /\ credited = [h \in Hashes |-> 0]

EarlierDb ==
  /\ users = <<[username |-> <<"a">>, balance |-> InitPaid]>>
  /\ invoices = <<[user_id |-> 1, amount |-> InitPaid, payment_hash |-> "h1", paid |-> 1]>>
  /\ ledger = [u \in UserIds |-> IF u = 1 THEN InitPaid ELSE 0]
  /\ credited = [h \in Hashes |-> IF h = "h1" THEN 1 ELSE 0]

InitServer ==
  /\ FreshDb \/ EarlierDb
  /\ spins = <<>>
  /\ sockUser = [s \in Sockets |-> 0]
  /\ oracle = [h \in Hashes |-> IF h = "h1" THEN [status |-> "paid", amount |-> InitPaid] ELSE NoPayment]
  /\ tasks = [t \in Tasks |-> IdleTask]
  /\ out = NoResp

IdleServer ==
  /\ FreshDb
  /\ spins = <<>>
  /\ sockUser = [s \in Sockets |-> 0]
  /\ oracle = [h \in Hashes |-> NoPayment]
  /\ tasks = [t \in Tasks |-> IdleTask]
  /\ out = NoResp

(***************************************************************************)
(* Specification of server.js with interleaved handlers.                   *)
(***************************************************************************)
Init == InitServer /\ nops = 0 /\ IdleSimple /\ InitGrid /\ variant = "server.js"

SpinStep(t) ==
  \/ \E s \in Sockets, b \in Bets, p \in Prices : SpinStart(t, s, b, p)
  \/ SpinRead(t)
  \/ \E d \in SpinDraws : SpinDebit(t, d)
  \/ SpinInsert(t)
  \/ SpinFinal(t)

LoginStep(t) ==
  \/ \E n \in Usernames : LoginStart(t, n)
  \/ LoginSelect(t)
  \/ LoginInsert(t)
  \/ LoginGet(t)
  \/ \E s \in Sockets, n \in Usernames : SockLoginStart(t, s, n)
  \/ SockLoginSelect(t)
  \/ SockLoginInsert(t)
  \/ SockLoginGet(t)

\* the provider call or the statement that deposit handler t awaits completes
DepositResume(t) ==
  \/ \E h \in Hashes : CreateResponse(t, h)
  \/ CreateResponseFail(t)
  \/ CreateFetch(t)
  \/ CreateFetchFail(t)
  \/ CreateFetchReject(t)
  \/ CreateInsert(t)
  \/ CheckResponse(t)
  \/ CheckFetch(t)
  \/ CheckFetchReject(t)
  \/ CheckInv(t)
  \/ CheckInsert(t)
  \/ CheckMark(t)
  \/ CheckUser(t)
  \/ CheckCredit(t)

DepositStep(t) ==
  \/ \E u \in UserIdInputs, a \in SatsInputs : CreateStart(t, u, a)
  \/ \E u \in UserIdInputs, h \in HashInputs : CheckStart(t, u, h)
  \/ DepositResume(t)

ServerStep(t) == SpinStep(t) \/ LoginStep(t) \/ DepositStep(t)

Pay == \E h \in Hashes, a \in OracleAmounts : OraclePay(h, a)

Next == (\E t \in Tasks : ServerStep(t)) \/ Pay

Spec == Init /\ [][Next]_vars

(***************************************************************************)
(* Specification of the SOCKET.IO variant with interleaved handlers.       *)
(***************************************************************************)
\* indices drawn for the three reels: cherry or star on each
SimDraws == [1..3 -> {1, 5}]
SimAmounts == {-5, 10}

SimpleStep(t) ==
  \/ \E s \in Sockets, n \in Usernames : SLoginStart(t, s, n)
  \/ SLoginSelect(t)
  \/ SLoginInsert(t)
  \/ \E s \in Sockets, a \in SatsInputs : SDepositStart(t, s, a)
  \/ SDepositResponse(t)
  \/ SDepositFetch(t)
  \/ SDepositFetchFail(t)
  \/ SDepositInsert(t)
  \/ \E s \in Sockets, a \in SimAmounts : SSimulateStart(t, s, a)
  \/ SSimulateUpdate(t)
  \/ SSimulateGet(t)
  \/ \E s \in Sockets : SSpinStart(t, s)
  \/ \E k \in SimDraws : SSpinRead(t, k)
  \/ SSpinWrite(t)

InitS == IdleServer /\ nops = 0 /\ InitSimple /\ InitGrid /\ variant = "SOCKET.IO"

NextS == \E t \in Tasks : SimpleStep(t)

SpecSimple == InitS /\ [][NextS]_vars

(***************************************************************************)
(* Handlers run one at a time, without interleaving (both variants).       *)
(***************************************************************************)
InitSeq == Init \/ InitS

NextSeq ==
  \/ variant = "server.js" /\ ServerStep(1)
  \/ variant = "server.js" /\ Pay /\ Free(1)
  \/ variant = "SOCKET.IO" /\ SimpleStep(1)

SpecSeq == InitSeq /\ [][NextSeq]_vars

(***************************************************************************)
(* N spins of one funded, logged-in user (the state an earlier login and   *)
(* deposit leave), interleaved.                                            *)
(***************************************************************************)
InitSpins ==
  /\ EarlierDb
  /\ spins = <<>>
  /\ sockUser = [s \in Sockets |-> 1]
  /\ oracle = [h \in Hashes |-> IF h = "h1" THEN [status |-> "paid", amount |-> InitPaid] ELSE NoPayment]
  /\ tasks = [t \in Tasks |-> IdleTask]
  /\ out = NoResp
  /\ nops = 0 /\ IdleSimple /\ InitGrid /\ variant = "server.js"

NextSpins == \E t \in Tasks : SpinStep(t)

SpecSpins == InitSpins /\ [][NextSpins]_vars

(***************************************************************************)
(* Handlers of server.js run one at a time, and a database statement of    *)
(* the spin handler may reject.                                            *)
(***************************************************************************)
NextFail ==
  \/ ServerStep(1)
  \/ SpinDbError(1)
  \/ Pay

SpecFail == Init /\ [][NextFail]_vars

(***************************************************************************)
(* The deposit handlers of server.js (create_invoice, check_payment) and   *)
(* the payment provider, interleaved.                                      *)
(***************************************************************************)
\* requests that pass validation: 5 sats for user 1 or 2, a poll of h1 or h2
DepositUsers == {1, 2}
DepositAmounts == {10}

NextDeposits ==
  \/ \E t \in Tasks :
        \/ \E u \in DepositUsers : CreateStart(t, u, 5)
        \/ \E u \in DepositUsers, h \in Hashes : CheckStart(t, u, h)
        \/ DepositResume(t)
  \/ \E h \in Hashes, a \in DepositAmounts : OraclePay(h, a)

SpecDeposits == Init /\ [][NextDeposits]_vars

(***************************************************************************)
(* Two users left by earlier runs: "a", funded and logged in on the        *)
(* socket, and "b", who has requested the invoice h2.  Both h1 (a payment  *)
(* the server has no row for) and h2 have been paid and not yet polled.    *)
(* Spins of "a", payment checks of "b" and logins interleave.              *)
(***************************************************************************)
InitUsers ==
  /\ users = <<[username |-> <<"a">>, balance |-> InitPaid],
               [username |-> <<"b">>, balance |-> 0]>>
  /\ invoices = <<[user_id |-> 2, amount |-> InitPaid, payment_hash |-> "h2", paid |-> 0]>>
  /\ ledger = [u \in UserIds |-> IF u = 1 THEN InitPaid ELSE 0]
  /\ credited = [h \in Hashes |-> 0]
  /\ spins = <<>>
  /\ sockUser = [s \in Sockets |-> 1]
  /\ oracle = [h \in Hashes |-> [status |-> "paid", amount |-> InitPaid]]
  /\ tasks = [t \in Tasks |-> IdleTask]
  /\ out = NoResp
  /\ nops = 0 /\ IdleSimple /\ InitGrid /\ variant = "server.js"

\* the statement or provider call that handler t awaits completes
Resume(t) ==
  \/ SpinRead(t)
  \/ \E d \in SpinDraws : SpinDebit(t, d)
  \/ SpinInsert(t)
  \/ SpinFinal(t)
  \/ CheckResponse(t)
  \/ CheckFetch(t)
  \/ CheckInv(t)
  \/ CheckInsert(t)
  \/ CheckMark(t)
  \/ CheckUser(t)
  \/ CheckCredit(t)
  \/ LoginSelect(t)
  \/ LoginInsert(t)
  \/ LoginGet(t)

\* usernames of the logins: an existing user and a new one
LoginNames == {<<"a">>, <<"c">>}

NextUsers ==
  \E t \in Tasks :
    \/ \E s \in Sockets : SpinStart(t, s, 1, 1)
    \/ \E h \in Hashes : CheckStart(t, 2, h)
    \/ \E n \in LoginNames : LoginStart(t, n)
    \/ Resume(t)

SpecUsers == InitUsers /\ [][NextUsers]_vars

(***************************************************************************)
(* The payout evaluation applied to grids.                                 *)
(***************************************************************************)
SymbolSets == {A \in SUBSET (1..Len(SYMBOLS)) : Cardinality(A) = GridAlphabet}

InitG ==
  /\ \E A \in SymbolSets : draw \in [1..3 -> [1..3 -> A]]
  /\ spinOut = NoSpin
  /\ IdleServer
  /\ nops = 0 /\ IdleSimple /\ variant = "server.js"

Evaluate ==
  /\ spinOut = NoSpin
  /\ spinOut' = randomSpin(draw)
  /\ UNCHANGED <<draw, variant, sSchemaUnique, users, invoices, spins, sockUser, oracle, tasks, out, nops, ledger,
                 credited, simpleVars>>

SpecGrid == InitG /\ [][Evaluate]_vars


(***************************************************************************)
(* Properties.                                                             *)
(***************************************************************************)
\* the declared payout of a symbol, and of a line: only three identical
\* symbols pay
TablePay(sym) ==
  CASE sym = "star" -> 360 [] sym = "seven" -> 156 [] sym = "diamond" -> 84
    [] sym = "bell" -> 21 [] sym = "melon" -> 8 [] sym = "lemon" -> 2
    [] sym = "cherry" -> 3 [] OTHER -> 0
LinePay(line) ==
  IF line[1] = line[2] /\ line[2] = line[3] THEN TablePay(line[1]) ELSE 0
LinesPay(lines) == LinePay(lines[1]) + LinePay(lines[2]) + LinePay(lines[3])

\* a handler of user u that mutates the balance is in flight
Mutating(t, u) ==
  /\ tasks[t].kind \in {"spin", "check"}
  /\ InFlight(t)
  /\ tasks[t].uid = u
Quiet(u) == \A t \in Tasks : ~Mutating(t, u)

\* C1: every persisted balance is a non-negative integer, in both variants.
C1_BalanceNonNegative ==
  /\ \A i \in 1..Len(users) : users[i].balance >= 0
  /\ \A i \in 1..Len(sUsers) : sUsers[i].balance >= 0

\* the steps of a spin of server.js, and of SOCKET.IO, settle exactly
C2_ServerStep(t) ==
  /\ (tasks[t].kind = "spin" /\ tasks[t].pc = "read" /\ tasks'[t].pc = "debit")
        => tasks'[t].bal = users[tasks[t].uid].balance
  /\ (tasks[t].kind = "spin" /\ tasks[t].pc = "final" /\ out'.ev = "spin-result")
        => LET new == tasks[t].bal - tasks[t].bet * tasks[t].spc
                      + LinesPay(tasks[t].spinRes.lines) * tasks[t].spc
           IN /\ users'[tasks[t].uid].balance = new
              /\ out'.balance = new
              /\ out'.prize = LinesPay(tasks[t].spinRes.lines) * tasks[t].spc
C2_SimpleStep(t) ==
  /\ (sTasks[t].kind = "spin" /\ sTasks[t].pc = "read" /\ sOut'.ev = "spinResult")
        => LET r == sOut'.result
               w == IF r[1] = r[2] /\ r[2] = r[3] THEN 100 ELSE 0
               new == SRow(sTasks[t].name).balance - 10 + w
           IN /\ sOut'.win = w
              /\ sOut'.balance = new
              /\ sTasks'[t].newBalance = new
  /\ (sTasks[t].kind = "spin" /\ sTasks[t].pc = "write" /\ sTasks'[t].pc = "idle")
        => \A i \in SUserByName(sTasks[t].name) :
             /\ sUsers'[i].balance = sTasks[t].newBalance
             /\ sUsers'[i].balance - sUsers[i].balance \in {-10, 90}
\* C2: a spin that succeeds without interleaving persists and returns
\* oldBalance - cost + prize, with cost = betCredits * satsPerCredit and
\* prize = (table credits of the outcome's lines) * satsPerCredit; in the
\* SOCKET.IO variant the bet is 10 and the prize 100 iff the reels are equal.
C2_SpinSettlesExactly ==
  [][\A t \in Tasks : C2_ServerStep(t) /\ C2_SimpleStep(t)]_vars
\* a winning spin has been settled
C2_Witness == out.ev = "spin-result" /\ out.prize > 0

\* the balance check of a spin of server.js, and of SOCKET.IO
C3_ServerStep(t) ==
  (/\ tasks[t].kind = "spin" /\ tasks[t].pc = "read" /\ tasks'[t].pc # "read"
   /\ tasks[t].uid \in 1..Len(users)
   /\ users[tasks[t].uid].balance < tasks[t].bet * tasks[t].spc)
     => /\ out'.ev = "error" /\ out'.msg = "Saldo insuficiente"
        /\ users' = users /\ spins' = spins
C3_SimpleStep(t) ==
  (/\ sTasks[t].kind = "spin" /\ sTasks[t].pc = "read" /\ sTasks'[t].pc # "read"
   /\ SUserByName(sTasks[t].name) # {}
   /\ SRow(sTasks[t].name).balance < 10)
     => /\ sOut'.ev = "spinError" /\ sOut'.msg = "Saldo insuficiente"
        /\ sUsers' = sUsers
\* C3: a spin whose user has a balance below the cost is answered with the
\* insufficient-balance error, and leaves balances and spin records as they are.
C3_InsufficientRejected ==
  [][\A t \in Tasks : C3_ServerStep(t) /\ C3_SimpleStep(t)]_vars

\* C4: once the interleaved spins of a user have all completed, the balance
\* is the starting balance with every completed spin's debit and prize applied.
C4_NoLostUpdate ==
  (\A t \in Tasks : Free(t)) => \A u \in 1..Len(users) : users[u].balance = ledger[u]

\* C5: the balance is credited at most once for a payment identifier, however
\* many polls observe it paid.
C5_CreditedOnce == \A h \in Hashes : credited[h] <= 1

\* C6: a spin of a logged-in user with a bet or a price per credit that is zero
\* or negative is rejected as invalid parameters, balances and records unchanged.
C6_InvalidRejected ==
  [][\A t \in Tasks :
       (/\ tasks[t].kind = "spin" /\ tasks[t].pc = "read" /\ tasks'[t].pc # "read"
        /\ tasks[t].uid \in 1..Len(users)
        /\ (tasks[t].bet <= 0 \/ tasks[t].spc <= 0))
          => /\ out'.ev = "error" /\ out'.msg = "Parametros invalidos"
             /\ users' = users /\ spins' = spins]_vars

\* C7: when a spin handler that passed its checks ends, either its net
\* balance change and its spin record are both persisted, or neither is.
C7_SpinAtomic ==
  [][\A t \in Tasks :
       (/\ tasks[t].kind = "spin" /\ tasks[t].pc \in {"debit", "insert", "final"}
        /\ tasks'[t].pc = "idle")
          => LET net == users'[tasks[t].uid].balance - tasks[t].bal
                 recorded == Len(spins') > 0 /\ tasks[t].pc = "final"
             IN \/ net = prizeSats(t) - cost(t) /\ recorded
                \/ net = 0 /\ ~recorded]_vars

\* C8: a user with no balance-mutating handler in flight has a balance equal to
\* the sum of the completed ledger events (credited deposits, spins' prize - cost).
C8_BalanceIsLedgerSum ==
  \A u \in 1..Len(users) : Quiet(u) => users[u].balance = ledger[u]

\* handler t has read the balance of user u and not yet written it for the last time
Holding(t, u) ==
  /\ tasks[t].uid = u
  /\ \/ tasks[t].kind = "spin" /\ tasks[t].pc \in {"debit", "insert", "final"}
     \/ tasks[t].kind = "check" /\ tasks[t].pc = "credit"
\* C9: no two handlers of one user are both between their read of the balance
\* and their final write of it.
C9_OneMutationInFlight ==
  \A u \in 1..Len(users) : \A t1, t2 \in Tasks :
    Holding(t1, u) /\ Holding(t2, u) => t1 = t2

\* C10: the evaluation of a grid returns the sum over the middle row, the
\* diagonal down and the diagonal up of the table value of the line, a line
\* pays only when its three symbols are identical, the winners are exactly the
\* paying lines, and a middle line of stars pays 360.
C10_PayoutEvaluation ==
  spinOut # NoSpin =>
    LET sym(c, r) == SYMBOLS[draw[c][r]]
        L == << <<sym(1, 2), sym(2, 2), sym(3, 2)>>,
                <<sym(1, 1), sym(2, 2), sym(3, 3)>>,
                <<sym(1, 3), sym(2, 2), sym(3, 1)>> >>
        paying == {i \in 1..3 : L[i][1] = L[i][2] /\ L[i][2] = L[i][3]}
        w == spinOut.winners
    IN /\ spinOut.prizeCredits = LinesPay(L)
       /\ {w[k].lineIndex : k \in 1..Len(w)} = paying
       /\ Len(w) = Cardinality(paying)
       /\ \A k \in 1..Len(w) : w[k].prizeCredits = TablePay(L[w[k].lineIndex][1])
       /\ \A k \in 1..Len(w) : w[k].prizeCredits > 0
       /\ (L[1] = <<"star", "star", "star">>
             => \E k \in 1..Len(w) : w[k].lineIndex = 1 /\ w[k].prizeCredits = 360)
\* a grid whose only paying line is the middle line of stars has been evaluated
C10_Witness ==
  /\ spinOut.prizeCredits = 360
  /\ Len(spinOut.winners) = 1
  /\ spinOut.winners[1].lineIndex = 1

\* C11: a login for a username without a row creates exactly one user with
\* balance 0 and answers balance 0; a login for an existing username answers the
\* stored balance and leaves every row as it is.
C11_LoginCreatesOrReturns ==
  [][\A t \in Tasks :
       /\ (/\ tasks[t].kind \in {"login", "sockLogin"} /\ tasks[t].pc = "select"
           /\ tasks'[t].pc # "select" /\ UserByName(tasks[t].name) # {})
             => /\ users' = users
                /\ out'.ev \in {"200", "login-success"}
                /\ \A i \in UserByName(tasks[t].name) : out'.balance = users[i].balance
       /\ (/\ tasks[t].kind \in {"login", "sockLogin"} /\ tasks[t].pc \in {"insert", "get"}
           /\ tasks'[t].pc = "idle")
             => /\ out'.ev \in {"200", "login-success"}
                /\ out'.balance = 0
                /\ Cardinality({i \in 1..Len(users') : users'[i].username = tasks[t].name}) = 1
       /\ (/\ tasks[t].kind \in {"login", "sockLogin"} /\ tasks[t].pc = "insert"
           /\ tasks'[t].pc = "get")
             => users' = Append(users, [username |-> tasks[t].name, balance |-> 0])]_vars

\* C12: a deposit request with an amount of zero or less is rejected before the
\* payment provider is called: every handler that goes on to the provider, every
\* call answered by it and every deposit row written is for an amount above 0,
\* and a rejection leaves the provider and the deposit rows as they are.
C12_NoOracleCallForBadAmount ==
  [][\A t \in Tasks :
       /\ (tasks'[t].kind = "create" /\ tasks'[t].pc \in {"fetch", "body"}) => tasks'[t].amt > 0
       /\ (tasks[t].kind = "create" /\ oracle' # oracle) => tasks[t].amt > 0
       /\ (tasks[t].kind = "create" /\ invoices' # invoices)
             => /\ tasks[t].amt > 0
                /\ invoices'[Len(invoices')].amount > 0
       /\ (out'.kind = "create" /\ out'.ev = "400")
             => oracle' = oracle /\ invoices' = invoices /\ tasks' = tasks
       /\ (sTasks'[t].kind = "requestDeposit" /\ sTasks'[t].pc \in {"fetch", "body"})
             => sTasks'[t].amount > 0
       /\ (sTasks[t].kind = "requestDeposit" /\ sDeposits' # sDeposits)
             => /\ sTasks[t].amount > 0
                /\ sDeposits'[Len(sDeposits')].amount > 0
       /\ (sOut'.kind = "requestDeposit" /\ sOut'.msg = "Cantidad invalida")
             => sDeposits' = sDeposits /\ sTasks' = sTasks]_vars
\* a logged-in client's deposit request has been rejected for its amount
C12_Witness == sOut.kind = "requestDeposit" /\ sOut.msg = "Cantidad invalida"

\* C13: the paid flag of a deposit row never goes back from 1 to 0, rows are
\* never removed or re-keyed, so a row goes from pending to paid at most once.
C13_PaidMonotonic ==
  [][/\ Len(invoices') >= Len(invoices)
     /\ \A i \in 1..Len(invoices) :
          /\ invoices'[i].payment_hash = invoices[i].payment_hash
          /\ invoices'[i].paid \in {0, 1}
          /\ invoices'[i].paid >= invoices[i].paid]_vars
\* a row created pending by create_invoice (5 sats requested) has been marked paid
C13_Witness == \E i \in 1..Len(invoices) : invoices[i].paid = 1 /\ invoices[i].amount = 5

\* C14: there is at most one deposit row per payment hash, also when an invoice
\* is created twice and when two polls both saw the row missing and both insert.
C14_OneRowPerHash == \A h \in Hashes : Cardinality(InvoiceByHash(h)) <= 1
\* the INSERT of a poll was refused by the store: another poll had inserted the row
C14_Witness ==
  /\ out.kind = "check" /\ out.ev = "500" /\ out.msg = "error interno" /\ out.id # 0
  /\ \E i \in 1..Len(invoices) : invoices[i].paid = 1

\* C17: a poll to which the provider reports the invoice unpaid answers
\* success: false and leaves every balance and every deposit row as it is;
\* so does a poll whose call of the provider fails, except that it answers the
\* failure.
C17_UnpaidPollChangesNothing ==
  [][\A t \in Tasks :
       /\ (/\ tasks[t].kind = "check" /\ tasks[t].pc = "body" /\ tasks'[t].pc # "body"
           /\ tasks[t].resp.status = "unpaid"
           /\ ~(out'.ev = "500" /\ out'.msg = "error interno"))
             => /\ out'.ev = "200" /\ out'.msg = "success: false"
                /\ tasks'[t].pc = "idle"
                /\ users' = users /\ invoices' = invoices
       /\ (/\ tasks[t].kind = "check" /\ tasks[t].pc \in {"fetch", "body"}
           /\ tasks'[t].pc \in {"body", "idle"} /\ tasks'[t].pc # tasks[t].pc)
             => users' = users /\ invoices' = invoices]_vars
\* a poll has been answered success: false
C17_Witness == out.kind = "check" /\ out.ev = "200" /\ out.msg = "success: false"

\* C15: every stored user has a username that is non-empty after trimming, and
\* no two user rows have the same username.
C15_UsernamesValid ==
  /\ \A i \in 1..Len(users) : Len(trim(users[i].username)) > 0
  /\ \A i, j \in 1..Len(users) : users[i].username = users[j].username => i = j

\* C16: spin records are append-only and one per resolved spin: existing
\* records are never changed or removed, a spin that returns a result has
\* appended one record carrying its prize, and a rejected spin appends none.
C16_SpinRecords ==
  [][/\ Len(spins') >= Len(spins)
     /\ \A i \in 1..Len(spins) : spins'[i] = spins[i]
     /\ \A t \in Tasks :
          /\ (tasks[t].kind = "spin" /\ tasks'[t].pc = "idle" /\ out'.ev = "spin-result")
                => /\ spins' = spins /\ Len(spins) > 0
                   /\ spins[Len(spins)].user_id = tasks[t].uid
                   /\ spins[Len(spins)].prize = out'.prize
          /\ (tasks[t].kind = "spin" /\ tasks[t].pc = "insert" /\ tasks'[t].pc = "final")
                => Len(spins') = Len(spins) + 1
          /\ (out'.kind = "spin" /\ out'.ev = "error") => spins' = spins
          /\ (sTasks[t].kind = "spin" /\ sOut'.ev = "spinResult")
                => Len(spins') = Len(spins) + 1
          /\ (sOut'.kind = "spin" /\ sOut'.ev = "spinError") => spins' = spins]_vars

\* C18: the settlement of a paid invoice adds to the balance exactly the
\* normalized amount (the reported amount up to 1000000, a thousandth of it
\* rounded down above), which is never negative and is the amount reported back.
C18_CreditIsNormalizedAmount ==
  [][\A t \in Tasks :
       (tasks[t].kind = "check" /\ tasks[t].pc = "credit" /\ tasks'[t].pc = "idle")
         => LET a == oracle[tasks[t].hash].amount
                n == IF a <= 1000000 THEN a ELSE a \div 1000
                u == tasks[t].uid
            IN /\ users'[u].balance = users[u].balance + n
               /\ out'.prize = n
               /\ out'.balance = users'[u].balance
               /\ n >= 0]_vars

\* C20: a paid invoice is settled only for the user who owns its deposit row:
\* a poll marks a row paid, or credits a balance for a hash that has a row,
\* only when the row belongs to the polling user.
C20_OnlyOwnerSettles ==
  [][\A t \in Tasks :
       /\ (tasks[t].kind = "check" /\ tasks[t].pc = "markPaid" /\ tasks'[t].pc # "markPaid")
             => \A i \in InvoiceByHash(tasks[t].hash) : invoices[i].user_id = tasks[t].uid
       /\ (tasks[t].kind = "check" /\ tasks[t].pc = "credit" /\ tasks'[t].pc = "idle")
             => \A i \in InvoiceByHash(tasks[t].hash) : invoices[i].user_id = tasks[t].uid]_vars

\* C19: a step of a handler changes the row of no user but its own, and a
\* handler in flight can always take its next step, whatever the handlers of
\* other users are doing.
C19_UsersIndependent ==
  /\ [][/\ Len(users') >= Len(users)
        /\ \A u \in 1..Len(users) :
             users'[u] # users[u]
               => \E t \in Tasks : /\ tasks'[t] # tasks[t]
                                   /\ tasks[t].kind \in {"spin", "check"}
                                   /\ tasks[t].uid = u]_vars
  /\ [](\A t \in Tasks : InFlight(t) => ENABLED Resume(t))
\* user 2 has been credited while a spin of user 1 is in flight
C19_Witness ==
  /\ Len(users) >= 2 /\ users[2].balance # 0 /\ users[1].balance = InitPaid
  /\ \E t \in Tasks : tasks[t].kind = "spin" /\ InFlight(t) /\ tasks[t].uid = 1

====
